---- MODULE Spec2Model ----
(***************************************************************************)
(* kawaiilogger (src/main.go): the input-event callbacks that count keys,  *)
(* clicks, mouse travel and scroll steps, the periodic flush of the        *)
(* since-flush tally to the SQLite and the remote sink, and the            *)
(* multi-monitor distance computation.                                     *)
(*                                                                         *)
(* Goroutines: the hook dispatcher (runs the registered callbacks) and the *)
(* flush loop share metrics and totalMetrics without any lock, so each     *)
(* `x++` and `x += d` is a load followed by a store.  The argument loads   *)
(* of one sink call are one step, and so are the five assignments of       *)
(* resetMetrics: a callback statement touches one field, and no property   *)
(* below relates the fields of one record to each other.                   *)
(*                                                                         *)
(* main() runs initLogger, glfwInit and initializeDB, creates the tallies  *)
(* and starts collectMetrics; a failure on the way ends the process.  Spec *)
(* begins where both goroutines run on the adjacent layout, SpecMain at    *)
(* the start of main() with what glfw may report.  The registry is         *)
(* assigned by glfwInit only, without monitorsMutex.Lock(); SpecReplace    *)
(* runs that assignment again while a distance computation holds the read  *)
(* lock.  SpecQuit adds the Quit item of the tray menu: systray.Quit() in  *)
(* the menu goroutine, then systray.Run and main() returning.              *)
(*                                                                         *)
(* Real numbers.  A float64 distance is kept exactly, as a bag of terms    *)
(* [sq, ppi, per], each standing for sqrt(sq) / (ppi * per); the bag is    *)
(* the sum of its terms, the empty bag is 0.  Rounding is not modelled.    *)
(***************************************************************************)
EXTENDS Integers, Sequences, FiniteSets, Bags, TLC

VARIABLES
    main,           \* the main goroutine: position in main() and its locals
    monitors,       \* var monitors []Monitor
    dbQueries,      \* var dbQueries *db.Queries: TRUE when non-nil
    metrics,        \* var metrics *Metrics
    totalMetrics,   \* var totalMetrics *TotalMetrics
    lastMouseX,     \* var lastMouseX int
    lastMouseY,     \* var lastMouseY int
    callers,        \* the goroutines that run callbacks
    cb,             \* per caller: position in the callback and its locals
    fl,             \* the flush goroutine: position in saveMetrics and its locals
    sqliteSink,     \* the metrics table behind _sqliteDb: the sums of its columns
    hist,           \* history: events begun, quiet periods, failed writes
    geo             \* a stand-alone call of a geometry function: locals and result

vars == <<main, monitors, dbQueries, metrics, totalMetrics, lastMouseX, lastMouseY,
          callers, cb, fl, sqliteSink, hist, geo>>

----------------------------------------------------------------------------
(* Bounds *)

MaxEvents == 2      \* callbacks started in one behaviour
MaxPerCaller == 2   \* callbacks per caller in the concurrent-callers run
MaxStartEvents == 1 \* callbacks started in a behaviour that begins with main()

----------------------------------------------------------------------------
(* Data *)

Monitor(x, y, w, h, win, hin, ppi) ==
    [XPos |-> x, YPos |-> y, WidthPx |-> w, HeightPx |-> h,
     WidthIn |-> win, HeightIn |-> hin, Ppi |-> ppi]

InchesPerMile == 63360

\* The order of the fields in the INSERT of saveMetrics and in resetMetrics.
MetricsFields ==
    <<"Keypresses", "MouseClicks", "MouseDistanceIn", "MouseDistanceMi", "ScrollSteps">>

TotalFields ==
    <<"TotalKeypresses", "TotalMouseClicks", "TotalMouseDistanceIn",
      "TotalMouseDistanceMi", "TotalScrollSteps">>

RealFields ==
    {"MouseDistanceIn", "MouseDistanceMi", "TotalMouseDistanceIn", "TotalMouseDistanceMi"}

Zero(f) == IF f \in RealFields THEN EmptyBag ELSE 0

\* &Metrics{} and &TotalMetrics{}
ZeroMetrics == [f \in {MetricsFields[i] : i \in 1..Len(MetricsFields)} |-> Zero(f)]
ZeroTotalMetrics == [f \in {TotalFields[i] : i \in 1..Len(TotalFields)} |-> Zero(f)]

----------------------------------------------------------------------------
(* float64 values of the distance computation, kept exactly *)

\* math.Sqrt(n) for an integer n >= 0
Sqrt(n) == [sq |-> n]

\* s / float64(ppi), s a square root: one term, or 0 when the numerator is 0
Quot(s, ppi) ==
    IF s.sq = 0 /\ ppi # 0
    THEN EmptyBag
    ELSE SetToBag({[sq |-> s.sq, ppi |-> ppi, per |-> 1]})

\* d / 63360 (main.go:304, 306)
PerMile(d) == BagOfAll(LAMBDA t : [t EXCEPT !.per = @ * InchesPerMile], d)

----------------------------------------------------------------------------
(* Monitor registry and distance (main.go:362-441) *)

\* The rectangle with its right and bottom edge included.
ContainsClosed(m, x, y) ==
    /\ x >= m.XPos /\ x <= m.XPos + m.WidthPx
    /\ y >= m.YPos /\ y <= m.YPos + m.HeightPx

\* The test of main.go:435
Contains(m, x, y) ==
    /\ x >= m.XPos /\ x < m.XPos + m.WidthPx
    /\ y >= m.YPos /\ y < m.YPos + m.HeightPx

\* monitors[0] of an empty slice panics
IndexOutOfRange == "panic: index out of range"

RECURSIVE ScanMonitors(_, _, _)
ScanMonitors(i, x, y) ==
    IF i > Len(monitors)
    THEN IF Len(monitors) = 0 THEN IndexOutOfRange ELSE monitors[1]
    ELSE IF Contains(monitors[i], x, y)
         THEN monitors[i]
         ELSE ScanMonitors(i + 1, x, y)

getMonitorForCoordinates(x, y) == ScanMonitors(1, x, y)

calculateDistance(x1, y1, x2, y2) ==
    LET dx == x2 - x1
        dy == y2 - y1
    IN  Sqrt(dx * dx + dy * dy)

\* The side coordinates with the right and bottom side one pixel past the
\* last pixel of the monitor (without the `- 1` of main.go:373, 377).
getMonitorSideCoordinatesPastEdge(x1, y1, x2, y2, m) ==
    IF x2 < m.XPos THEN <<m.XPos, y1>>
    ELSE IF x2 >= m.XPos + m.WidthPx THEN <<m.XPos + m.WidthPx, y1>>
    ELSE IF y2 < m.YPos THEN <<x1, m.YPos>>
    ELSE IF y2 >= m.YPos + m.HeightPx THEN <<x1, m.YPos + m.HeightPx>>
    ELSE <<x2, y2>>

\* The side coordinates with the other coordinate taken from the destination.
getMonitorSideCoordinatesOfDestination(x1, y1, x2, y2, m) ==
    IF x2 < m.XPos THEN <<m.XPos, y2>>
    ELSE IF x2 >= m.XPos + m.WidthPx THEN <<m.XPos + m.WidthPx - 1, y2>>
    ELSE IF y2 < m.YPos THEN <<x2, m.YPos>>
    ELSE IF y2 >= m.YPos + m.HeightPx THEN <<x2, m.YPos + m.HeightPx - 1>>
    ELSE <<x2, y2>>

getMonitorSideCoordinates(x1, y1, x2, y2, m) ==
    IF x2 < m.XPos THEN <<m.XPos, y1>>
    ELSE IF x2 >= m.XPos + m.WidthPx THEN <<m.XPos + m.WidthPx - 1, y1>>
    ELSE IF y2 < m.YPos THEN <<x1, m.YPos>>
    ELSE IF y2 >= m.YPos + m.HeightPx THEN <<x1, m.YPos + m.HeightPx - 1>>
    ELSE <<x2, y2>>

\* The distance without the same-monitor branch of main.go:420-422.
calculateMultiMonitorDistanceAlwaysSplit(x1, y1, x2, y2) ==
    LET m1 == getMonitorForCoordinates(x1, y1)
        m2 == getMonitorForCoordinates(x2, y2)
        s1 == getMonitorSideCoordinates(x1, y1, x2, y2, m1)
        d1 == Quot(calculateDistance(x1, y1, s1[1], s1[2]), m1.Ppi)
        s2 == getMonitorSideCoordinates(x1, y1, x2, y2, m2)
        d2 == Quot(calculateDistance(x1, y1, s2[1], s2[2]), m1.Ppi)
    IN  d1 (+) d2

\* The distance with the second segment divided by the PPI of its own monitor.
calculateMultiMonitorDistanceOwnPpi(x1, y1, x2, y2) ==
    LET m1 == getMonitorForCoordinates(x1, y1)
        m2 == getMonitorForCoordinates(x2, y2)
    IN  IF m1 = m2
        THEN Quot(calculateDistance(x1, y1, x2, y2), m1.Ppi)
        ELSE LET s1 == getMonitorSideCoordinates(x1, y1, x2, y2, m1)
                 d1 == Quot(calculateDistance(x1, y1, s1[1], s1[2]), m1.Ppi)
                 s2 == getMonitorSideCoordinates(x1, y1, x2, y2, m2)
                 d2 == Quot(calculateDistance(x1, y1, s2[1], s2[2]), m2.Ppi)
             IN  d1 (+) d2

calculateMultiMonitorDistance(x1, y1, x2, y2) ==
    LET m1 == getMonitorForCoordinates(x1, y1)
        m2 == getMonitorForCoordinates(x2, y2)
    IN  IF m1 = m2
        THEN Quot(calculateDistance(x1, y1, x2, y2), m1.Ppi)
        ELSE LET s1 == getMonitorSideCoordinates(x1, y1, x2, y2, m1)
                 d1 == Quot(calculateDistance(x1, y1, s1[1], s1[2]), m1.Ppi)
                 s2 == getMonitorSideCoordinates(x1, y1, x2, y2, m2)
                 d2 == Quot(calculateDistance(x1, y1, s2[1], s2[2]), m1.Ppi)
             IN  d1 (+) d2

\* The locals <<sx1, sy1>> and <<sx2, sy2>> of main.go:424, 427; they do not
\* exist when the call returns at main.go:421.
sideCoordinates(x1, y1, x2, y2) ==
    LET m1 == getMonitorForCoordinates(x1, y1)
        m2 == getMonitorForCoordinates(x2, y2)
    IN  IF m1 = m2
        THEN <<>>
        ELSE <<getMonitorSideCoordinates(x1, y1, x2, y2, m1),
               getMonitorSideCoordinates(x1, y1, x2, y2, m2)>>

\* The rotation taken as it comes, without math.Abs.
ScrollDistanceSigned(rotation) == rotation

\* int(math.Abs(float64(e.Rotation))) (main.go:311)
ScrollDistance(rotation) == IF rotation < 0 THEN -rotation ELSE rotation

----------------------------------------------------------------------------
(* The environment: display layouts and input events *)

\* Two adjacent displays of different density.
RegistryAdjacent ==
    <<Monitor(0, 0, 1920, 1080, 20, 11, 96), Monitor(1920, 0, 1920, 1080, 10, 5, 192)>>

\* Two displays whose rectangles overlap (x in [960,1920)).
RegistryOverlap ==
    <<Monitor(0, 0, 1920, 1080, 20, 11, 96), Monitor(960, 0, 1920, 1080, 10, 5, 192)>>

\* One display away from the origin: (0,0) lies on no display.
RegistryOffset == <<Monitor(100, 50, 800, 600, 8, 6, 100)>>

Registries == {RegistryAdjacent, RegistryOverlap, RegistryOffset}

\* Cursor positions and wheel rotations the hook delivers in the event runs.
Positions == {<<500, 100>>, <<1940, 100>>}
Rotations == {-3, 2}

\* Coordinates of the stand-alone geometry calls.
GeoX == {-1, 0, 100, 500, 960, 1900, 1919, 1920, 1940, 3840}
GeoY == {-1, 0, 100, 1079, 1080}

----------------------------------------------------------------------------
(* Event callbacks (collectMetrics, main.go:288-314) *)

EventKinds == {"KeyDown", "MouseDown", "MouseMove", "MouseWheel"}

\* The key-down callback with the lifetime statement of the click callback.
StmtsKeyCountsClick(kind) ==
    CASE kind = "KeyDown" ->
           <<[obj |-> "metrics", f |-> "Keypresses"],
             [obj |-> "totalMetrics", f |-> "TotalMouseClicks"]>>
      [] kind = "MouseDown" ->
           <<[obj |-> "metrics", f |-> "MouseClicks"],
             [obj |-> "totalMetrics", f |-> "TotalMouseClicks"]>>
      [] kind = "MouseMove" ->
           <<[obj |-> "metrics", f |-> "MouseDistanceIn"],
             [obj |-> "metrics", f |-> "MouseDistanceMi"],
             [obj |-> "totalMetrics", f |-> "TotalMouseDistanceIn"],
             [obj |-> "totalMetrics", f |-> "TotalMouseDistanceMi"]>>
      [] kind = "MouseWheel" ->
           <<[obj |-> "metrics", f |-> "ScrollSteps"],
             [obj |-> "totalMetrics", f |-> "TotalScrollSteps"]>>

\* The read-modify-write statements of each callback, in program order.
Stmts(kind) ==
    CASE kind = "KeyDown" ->
           <<[obj |-> "metrics", f |-> "Keypresses"],
             [obj |-> "totalMetrics", f |-> "TotalKeypresses"]>>
      [] kind = "MouseDown" ->
           <<[obj |-> "metrics", f |-> "MouseClicks"],
             [obj |-> "totalMetrics", f |-> "TotalMouseClicks"]>>
      [] kind = "MouseMove" ->
           <<[obj |-> "metrics", f |-> "MouseDistanceIn"],
             [obj |-> "metrics", f |-> "MouseDistanceMi"],
             [obj |-> "totalMetrics", f |-> "TotalMouseDistanceIn"],
             [obj |-> "totalMetrics", f |-> "TotalMouseDistanceMi"]>>
      [] kind = "MouseWheel" ->
           <<[obj |-> "metrics", f |-> "ScrollSteps"],
             [obj |-> "totalMetrics", f |-> "TotalScrollSteps"]>>

\* The right-hand sides without the division of main.go:304, 306.
AmountInchesOnly(kind, s, d) ==
    CASE kind \in {"KeyDown", "MouseDown"} -> 1
      [] kind \in {"MouseWheel", "MouseMove"} -> d

\* The right-hand side of statement s of a callback whose local `distance` is d.
Amount(kind, s, d) ==
    CASE kind \in {"KeyDown", "MouseDown"} -> 1
      [] kind = "MouseWheel" -> d
      [] kind = "MouseMove" ->
           IF Stmts(kind)[s].f \in {"MouseDistanceMi", "TotalMouseDistanceMi"}
           THEN PerMile(d)
           ELSE d

Plus(f, a, b) == IF f \in RealFields THEN a (+) b ELSE a + b

IdleCb ==
    [pc |-> "idle", kind |-> "none", x |-> 0, y |-> 0, rotation |-> 0, distance |-> 0,
     stmt |-> 0, reg |-> 0]

\* History.  quiet: no callback has taken a step since the latest cycle read
\* its arguments.  clean: resetMetrics has run and no callback has taken a step
\* since.  begun: the events delivered, per caller and kind.  failed: a sink
\* write of the latest cycle returned an error.  local: the record the SQLite
\* sink stored in a cycle that goes on to the remote sink, until the reset.
\* moved: the position the latest mouse-move event delivered.  atQuit: the
\* since-flush tally when Quit was clicked.
\* History of a sink call: a failed call is remembered, with its arguments, as
\* long as no callback has taken a step since the arguments were read.
NoCall == [failed |-> FALSE, args |-> ZeroMetrics]

Remember(args, ok) ==
    IF ~ok /\ hist.quiet THEN [failed |-> TRUE, args |-> args] ELSE NoCall

\* History kept on every step of a callback.
CallbackStep(c, began) ==
    [hist EXCEPT !.quiet = FALSE,
                 !.clean = FALSE,
                 !.sqlite = NoCall,
                 !.remote = NoCall,
                 !.begun = IF began = "none" THEN @
                           ELSE [@ EXCEPT ![c] = [@ EXCEPT ![began] = @ + 1]]]

Begun(c) ==
    hist.begun[c]["KeyDown"] + hist.begun[c]["MouseDown"]
      + hist.begun[c]["MouseMove"] + hist.begun[c]["MouseWheel"]

\* The value a callback statement loads.
Load(st) == IF st.obj = "metrics" THEN metrics[st.f] ELSE totalMetrics[st.f]

\* The hook delivers an event and the callback runs up to its first access of
\* shared state: for a mouse move the call of main.go:302, otherwise the load
\* of its first statement.
Enter(c, kind, x, y, r) ==
    /\ c \in callers
    /\ cb[c].pc = "idle"
    /\ cb' = [cb EXCEPT ![c] =
                 IF kind = "MouseMove"
                 THEN [pc |-> "load", kind |-> kind, x |-> x, y |-> y, rotation |-> r,
                       distance |-> calculateMultiMonitorDistance(lastMouseX, lastMouseY, x, y),
                       stmt |-> 1, reg |-> 0]
                 ELSE [pc |-> "store", kind |-> kind, x |-> x, y |-> y, rotation |-> r,
                       distance |-> IF kind = "MouseWheel" THEN ScrollDistance(r) ELSE 0,
                       stmt |-> 1, reg |-> Load(Stmts(kind)[1])]]
    /\ hist' = [CallbackStep(c, kind) EXCEPT
                    !.moved = IF kind = "MouseMove" THEN <<x, y>> ELSE @]
    /\ UNCHANGED <<main, monitors, dbQueries, metrics, totalMetrics, lastMouseX, lastMouseY,
                   callers, fl, sqliteSink, geo>>

\* main.go:288-291
KeyDown(c) == Enter(c, "KeyDown", 0, 0, 0)

\* main.go:293-296
MouseDown(c) == Enter(c, "MouseDown", 0, 0, 0)

\* main.go:300-302: newX, newY := int(e.X), int(e.Y); distance := calculate...(...)
MouseMove(c) ==
    /\ Len(monitors) > 0
    /\ \E p \in Positions : Enter(c, "MouseMove", p[1], p[2], 0)

\* main.go:302 on an empty registry: getMonitorForCoordinates evaluates
\* monitors[0] (main.go:440), the callback panics and the process ends.
MouseMovePanics(c) ==
    /\ c \in callers
    /\ cb[c].pc = "idle"
    /\ Len(monitors) = 0
    /\ main' = [main EXCEPT !.pc = "exit", !.err = IndexOutOfRange]
    /\ callers' = {}
    /\ fl' = [fl EXCEPT !.pc = "exit"]
    /\ hist' = CallbackStep(c, "MouseMove")
    /\ UNCHANGED <<monitors, dbQueries, metrics, totalMetrics, lastMouseX, lastMouseY,
                   cb, sqliteSink, geo>>

\* main.go:310-312: distance := int(math.Abs(float64(e.Rotation)))
MouseWheel(c) == \E r \in Rotations : Enter(c, "MouseWheel", 0, 0, r)

\* The load of `x++` / `x += d`.
CbLoad(c) ==
    /\ c \in callers
    /\ cb[c].pc = "load"
    /\ cb' = [cb EXCEPT ![c].reg = Load(Stmts(cb[c].kind)[cb[c].stmt]),
                        ![c].pc = "store"]
    /\ hist' = CallbackStep(c, "none")
    /\ UNCHANGED <<main, monitors, dbQueries, metrics, totalMetrics, lastMouseX, lastMouseY,
                   callers, fl, sqliteSink, geo>>

\* The store of `x++` / `x += d`; then the next statement, or the return.
CbStore(c) ==
    /\ c \in callers
    /\ cb[c].pc = "store"
    /\ LET kind == cb[c].kind
           st == Stmts(kind)[cb[c].stmt]
           v == Plus(st.f, cb[c].reg, Amount(kind, cb[c].stmt, cb[c].distance))
       IN  /\ IF st.obj = "metrics"
              THEN metrics' = [metrics EXCEPT ![st.f] = v] /\ UNCHANGED totalMetrics
              ELSE totalMetrics' = [totalMetrics EXCEPT ![st.f] = v] /\ UNCHANGED metrics
           /\ cb' = [cb EXCEPT ![c] =
                        IF cb[c].stmt < Len(Stmts(kind))
                        THEN [@ EXCEPT !.stmt = @ + 1, !.pc = "load", !.reg = 0]
                        ELSE IF kind = "MouseMove"
                             THEN [@ EXCEPT !.pc = "setLast", !.reg = 0]
                             ELSE IdleCb]
    /\ hist' = CallbackStep(c, "none")
    /\ UNCHANGED <<main, monitors, dbQueries, lastMouseX, lastMouseY,
                   callers, fl, sqliteSink, geo>>

\* main.go:307: lastMouseX, lastMouseY = newX, newY
\* The callback returning without main.go:307.
SetLastMouseSkipped(c) ==
    /\ c \in callers
    /\ cb[c].pc = "setLast"
    /\ cb' = [cb EXCEPT ![c] = IdleCb]
    /\ hist' = CallbackStep(c, "none")
    /\ UNCHANGED <<main, monitors, dbQueries, metrics, totalMetrics, lastMouseX, lastMouseY,
                   callers, fl, sqliteSink, geo>>

SetLastMouse(c) ==
    /\ c \in callers
    /\ cb[c].pc = "setLast"
    /\ lastMouseX' = cb[c].x
    /\ lastMouseY' = cb[c].y
    /\ cb' = [cb EXCEPT ![c] = IdleCb]
    /\ hist' = CallbackStep(c, "none")
    /\ UNCHANGED <<main, monitors, dbQueries, metrics, totalMetrics,
                   callers, fl, sqliteSink, geo>>

----------------------------------------------------------------------------
(* The flush loop (main.go:316-360) *)

MaxInt32 == 2147483647

\* int32(v) of a Go int v >= 0 below 2^32
Int32(v) == IF v <= MaxInt32 THEN v ELSE v - MaxInt32 - MaxInt32 - 2

\* The periods of 60 seconds one time.Sleep of the flush loop lasts (main.go:318)
SleepPeriods == 1

\* The flush goroutine entering time.Sleep; i counts the periods slept.
IdleFl == [pc |-> "sleep", i |-> 0, args |-> ZeroMetrics, err |-> FALSE]

FlushFrame ==
    UNCHANGED <<main, monitors, dbQueries, totalMetrics, lastMouseX, lastMouseY, callers, cb, geo>>

\* The arguments of one sink call, read from metrics (main.go:332, 341-345).
\* CreateMetricsParams narrows the counts to int32.
SqliteArgs == metrics

RemoteArgs ==
    [f \in DOMAIN metrics |-> IF f \in RealFields THEN metrics[f] ELSE Int32(metrics[f])]

\* A sink holds the column sums of the rows it stored, as the metrics_summary
\* trigger of the schema keeps them.
EmptySink == ZeroMetrics

\* The sink is called with args and answers ok; a row is stored when ok.
Called(sink, args, ok) ==
    IF ok THEN [f \in DOMAIN sink |-> Plus(f, sink[f], args[f])] ELSE sink

\* A period of 60 seconds passes while the flush goroutine sleeps.
SleepElapses ==
    /\ fl.pc = "sleep"
    /\ fl.i < SleepPeriods
    /\ fl' = [fl EXCEPT !.i = @ + 1]
    /\ UNCHANGED <<metrics, sqliteSink, hist>>
    /\ FlushFrame

\* The flush loop calling saveMetrics without waiting for time.Sleep to return.
TickAtOnce ==
    /\ fl.pc = "sleep"
    /\ fl' = [IdleFl EXCEPT !.pc = "sqliteExec", !.args = SqliteArgs]
    /\ hist' = [hist EXCEPT !.quiet = TRUE, !.failed = FALSE]
    /\ UNCHANGED <<metrics, sqliteSink>>
    /\ FlushFrame

\* time.Sleep(time.Second * 60) returns, saveMetrics is called and reads the
\* arguments of _sqliteDb.Exec.
Tick ==
    /\ fl.pc = "sleep"
    /\ fl.i = SleepPeriods
    /\ fl' = [IdleFl EXCEPT !.pc = "sqliteExec", !.args = SqliteArgs]
    /\ hist' = [hist EXCEPT !.quiet = TRUE, !.failed = FALSE]
    /\ UNCHANGED <<metrics, sqliteSink>>
    /\ FlushFrame

\* The failed INSERT reported with logger.Fatalf: the process exits.
SqliteExecFatal ==
    /\ fl.pc = "sqliteExec"
    /\ sqliteSink' = Called(sqliteSink, fl.args, FALSE)
    /\ hist' = [hist EXCEPT !.sqlite = Remember(fl.args, FALSE), !.remote = NoCall,
                            !.failed = TRUE]
    /\ fl' = [IdleFl EXCEPT !.pc = "exit"]
    /\ callers' = {}
    /\ main' = [main EXCEPT !.pc = "exit", !.err = "failed to save metrics"]
    /\ UNCHANGED <<monitors, dbQueries, metrics, totalMetrics, lastMouseX, lastMouseY,
                   cb, geo>>

\* The failed INSERT only logged: saveMetrics goes on as after a stored row.
SqliteExecFailLogged ==
    /\ fl.pc = "sqliteExec"
    /\ sqliteSink' = Called(sqliteSink, fl.args, FALSE)
    /\ hist' = [hist EXCEPT !.sqlite = Remember(fl.args, FALSE), !.remote = NoCall,
                            !.failed = TRUE]
    /\ fl' = [IdleFl EXCEPT !.pc = IF dbQueries THEN "remoteArgs" ELSE "reset"]
    /\ UNCHANGED metrics
    /\ FlushFrame

\* main.go:329-337: the INSERT fails; the error is logged and saveMetrics returns.
SqliteExecFail ==
    /\ fl.pc = "sqliteExec"
    /\ sqliteSink' = Called(sqliteSink, fl.args, FALSE)
    /\ hist' = [hist EXCEPT !.sqlite = Remember(fl.args, FALSE), !.remote = NoCall,
                            !.failed = TRUE]
    /\ fl' = IdleFl
    /\ UNCHANGED metrics
    /\ FlushFrame

\* saveMetrics after the INSERT succeeded (main.go:339, 351)
AfterSqlite ==
    IF dbQueries
    THEN [IdleFl EXCEPT !.pc = "remoteArgs"]
    ELSE [IdleFl EXCEPT !.pc = "reset"]

\* main.go:329-339: the INSERT succeeds.
SqliteExecOk ==
    /\ fl.pc = "sqliteExec"
    /\ sqliteSink' = Called(sqliteSink, fl.args, TRUE)
    /\ fl' = AfterSqlite
    /\ hist' = [hist EXCEPT !.sqlite = NoCall,
                            !.remote = IF dbQueries THEN @ ELSE NoCall,
                            !.local = IF dbQueries THEN fl.args ELSE @]
    /\ UNCHANGED metrics
    /\ FlushFrame

\* main.go:340-346: the fields of db.CreateMetricsParams are read from metrics.
RemoteArg ==
    /\ fl.pc = "remoteArgs"
    /\ fl' = [fl EXCEPT !.pc = "remoteExec", !.args = RemoteArgs]
    /\ UNCHANGED <<metrics, sqliteSink, hist>>
    /\ FlushFrame

\* saveMetrics calling CreateMetrics again after it returned an error.
AfterRemoteRetries(failed) ==
    IF failed
    THEN [IdleFl EXCEPT !.pc = "remoteArgs"]
    ELSE [IdleFl EXCEPT !.pc = "reset", !.err = failed]

\* saveMetrics after dbQueries.CreateMetrics returned (main.go:347-351)
AfterRemote(failed) == [IdleFl EXCEPT !.pc = "reset", !.err = failed]

\* main.go:340-351: CreateMetrics returns; an error is logged.
RemoteExec(ok) ==
    /\ fl.pc = "remoteExec"
    /\ fl' = AfterRemote(~ok)
    /\ hist' = [hist EXCEPT !.remote = Remember(fl.args, ok), !.failed = ~ok]
    /\ UNCHANGED <<metrics, sqliteSink>>
    /\ FlushFrame

RemoteExecOk == RemoteExec(TRUE)

RemoteExecFail == RemoteExec(FALSE)

\* resetMetrics without the assignment of main.go:358
resetMetricsKeepsMiles ==
    [f \in DOMAIN metrics |-> IF f = "MouseDistanceMi" THEN metrics[f] ELSE Zero(f)]

\* resetMetrics (main.go:354-360)
resetMetrics == [f \in DOMAIN metrics |-> Zero(f)]

\* A resetMetrics that clears the lifetime tally as well.
ResetClearsTotals ==
    /\ fl.pc = "reset"
    /\ metrics' = resetMetrics
    /\ totalMetrics' = ZeroTotalMetrics
    /\ fl' = IdleFl
    /\ hist' = [hist EXCEPT !.clean = TRUE, !.local = ZeroMetrics]
    /\ UNCHANGED <<main, monitors, dbQueries, lastMouseX, lastMouseY, callers, cb, geo, sqliteSink>>

\* main.go:351: resetMetrics(), and saveMetrics returns.
Reset ==
    /\ fl.pc = "reset"
    /\ metrics' = resetMetrics
    /\ fl' = IdleFl
    /\ hist' = [hist EXCEPT !.clean = TRUE, !.local = ZeroMetrics]
    /\ UNCHANGED sqliteSink
    /\ FlushFrame

----------------------------------------------------------------------------
(* Startup (main.go:72-221, 383-411) *)

\* A nil *Metrics or *TotalMetrics: the variables before main.go:215, 216.
NilPtr == [nil |-> TRUE]

\* main() at position pc.  err: what ended the process; glfwMonitors: what
\* glfw.GetMonitors() returned to getMonitors.
\* Before loadConfig: whether a config file exists is not known to the
\* program and database.type is not read.
NoConfig == [file |-> "unknown", Type |-> "unread"]

MainAt(pc) == [pc |-> pc, err |-> "none", glfwMonitors |-> <<>>, config |-> NoConfig]

\* One *glfw.Monitor: GetPos(), GetVideoMode() and GetPhysicalSize() (in mm).
GlfwMonitor(x, y, w, h, wmm, hmm) ==
    [XPos |-> x, YPos |-> y, Width |-> w, Height |-> h, WidthMM |-> wmm, HeightMM |-> hmm]

\* What glfw.GetMonitors() may return: the two adjacent displays; no display
\* at all; a display whose physical size is not known (0 x 0 mm); a display
\* whose EDID holds its aspect ratio (16 x 9) in place of its size.
ReportAdjacent ==
    <<GlfwMonitor(0, 0, 1920, 1080, 508, 283), GlfwMonitor(1920, 0, 1920, 1080, 254, 142)>>
ReportNone == <<>>
ReportNoSize == <<GlfwMonitor(0, 0, 1920, 1080, 0, 0)>>
ReportAspectOnly == <<GlfwMonitor(0, 0, 1920, 1080, 16, 9)>>

Reports == {ReportAdjacent, ReportNone, ReportNoSize, ReportAspectOnly}

\* The ends of the range of int.  An int of Go has 64 bits; these two values
\* are kept by the ends of a 32-bit range, and only their sign and their
\* identity are used.
MostPositiveInt == 2147483647
MostNegativeInt == -MostPositiveInt - 1

\* int(f) of a float64 f that is +Inf: the result is implementation-dependent;
\* amd64 gives the most negative int, arm64 the most positive.
IntOfInf == {MostNegativeInt, MostPositiveInt}

\* int(float64(mm) / 25.4) (main.go:391, 404-405)
InchesOfMM(mm) == (10 * mm) \div 254

\* int(ppi) of main.go:394-397, 406 for a video mode of w x h > 0 pixels:
\* (w / (wmm / 25.4) + h / (hmm / 25.4)) / 2, +Inf when a physical size is 0.
PpiOf(w, h, wmm, hmm) ==
    IF wmm = 0 \/ hmm = 0
    THEN IntOfInf
    ELSE {(127 * (w * hmm + h * wmm)) \div (10 * wmm * hmm)}

\* The values of monitors[i] for the glfw monitor g (main.go:388-407)
MonitorsOf(g) ==
    {Monitor(g.XPos, g.YPos, g.Width, g.Height,
             InchesOfMM(g.WidthMM), InchesOfMM(g.HeightMM), ppi) :
        ppi \in PpiOf(g.Width, g.Height, g.WidthMM, g.HeightMM)}

\* getMonitors (main.go:383-411) when glfw.GetMonitors() returns glfwMonitors:
\* the slices it may return.
RECURSIVE getMonitors(_)
getMonitors(glfwMonitors) ==
    IF glfwMonitors = <<>>
    THEN {<<>>}
    ELSE LET n == Len(glfwMonitors)
         IN  {Append(ms, m) : ms \in getMonitors(SubSeq(glfwMonitors, 1, n - 1)),
                              m \in MonitorsOf(glfwMonitors[n])}

\* A step of main() that changes only its position.
MainFrame ==
    UNCHANGED <<monitors, dbQueries, metrics, totalMetrics, lastMouseX, lastMouseY,
                callers, cb, fl, sqliteSink, hist, geo>>

\* log.Fatal, logger.Fatalf or an unrecovered panic in main(): the process ends.
Exit(err) == [main EXCEPT !.pc = "exit", !.err = err]

\* initLogger (main.go:72-104)
InitLoggerOk ==
    /\ main.pc = "initLogger"
    /\ main' = [main EXCEPT !.pc = "glfwInit"]
    /\ MainFrame

\* initLogger: the home directory, the log directory or the log file fails.
InitLoggerFail ==
    /\ main.pc = "initLogger"
    /\ main' = Exit("initLogger")
    /\ MainFrame

\* glfw.Init() succeeds (main.go:107)
GlfwInitOk ==
    /\ main.pc = "glfwInit"
    /\ main' = [main EXCEPT !.pc = "getMonitors"]
    /\ MainFrame

\* glfw.Init() fails and the failure is only remembered.
GlfwInitFailIgnored ==
    /\ main.pc = "glfwInit"
    /\ main' = [main EXCEPT !.pc = "getMonitors", !.err = "glfw.Init"]
    /\ MainFrame

\* glfw.Init() fails: panic(err) (main.go:107-109)
GlfwInitFail ==
    /\ main.pc = "glfwInit"
    /\ main' = Exit("glfw.Init")
    /\ MainFrame

\* monitors = getMonitors() (main.go:112); no other goroutine runs yet.
GlfwInitMonitors ==
    /\ main.pc = "getMonitors"
    /\ \E glfwMonitors \in Reports :
         /\ monitors' \in getMonitors(glfwMonitors)
         /\ main' = [main EXCEPT !.pc = "initializeDB", !.glfwMonitors = glfwMonitors]
    /\ UNCHANGED <<dbQueries, metrics, totalMetrics, lastMouseX, lastMouseY,
                   callers, cb, fl, sqliteSink, hist, geo>>

\* database.type in the config file and KL_DB_TYPE in the environment; ""
\* when not set, "mysql" for a type initializeDB does not support.
ConfigTypes == {"", "sqlite", "postgres", "libsql", "mysql"}

\* A loadConfig that applies KL_DB_TYPE whether or not a config file exists.
loadConfigEnvFirst(file, fileType, envType) ==
    IF envType # "" THEN envType ELSE IF file THEN fileType ELSE ""

\* config.Type as loadConfig returns it (main.go:169-208): "" without a config
\* file (main.go:177-180), else KL_DB_TYPE when set, else database.type.
loadConfig(file, fileType, envType) ==
    IF ~file THEN "" ELSE IF envType # "" THEN envType ELSE fileType

\* What can fail in initializeDB: setupDefaultSQLite (main.go:120), reading an
\* existing config file (main.go:125), sql.Open or Ping (main.go:158, 163).
DbFaults ==
    {"none", "failed to setup local sqlite", "failed to load config",
     "failed to open database"}

\* initializeDB (main.go:115-167): every failure is reported with
\* logger.Fatalf; with config.Type "" it returns after the default SQLite
\* database was set up, with "postgres" or "libsql" dbQueries is assigned
\* before the database is opened and pinged.
InitializeDB ==
    /\ main.pc = "initializeDB"
    /\ \E file \in BOOLEAN, fileType \in ConfigTypes, envType \in ConfigTypes,
          fault \in DbFaults :
         LET type == loadConfig(file, fileType, envType)
             err == IF fault = "failed to setup local sqlite" THEN fault
                    ELSE IF file /\ fault = "failed to load config" THEN fault
                    ELSE IF type = "" THEN "none"
                    ELSE IF type = "mysql" THEN "unsupported database type"
                    ELSE IF fault = "failed to open database" THEN fault
                    ELSE "none"
             read == err \notin {"failed to setup local sqlite", "failed to load config"}
         IN  /\ dbQueries' = (read /\ type \in {"postgres", "libsql"})
             /\ main' = [main EXCEPT
                            !.pc = IF err = "none" THEN "tallies" ELSE "exit",
                            !.err = err,
                            !.config = [file |-> IF file THEN "present" ELSE "absent",
                                        Type |-> IF read THEN type ELSE "unread"]]
    /\ UNCHANGED <<monitors, metrics, totalMetrics, lastMouseX, lastMouseY,
                   callers, cb, fl, sqliteSink, hist, geo>>

\* metrics = &Metrics{}; totalMetrics = &TotalMetrics{} (main.go:215-216)
NewTallies ==
    /\ main.pc = "tallies"
    /\ metrics' = ZeroMetrics
    /\ totalMetrics' = ZeroTotalMetrics
    /\ main' = [main EXCEPT !.pc = "go"]
    /\ UNCHANGED <<monitors, dbQueries, lastMouseX, lastMouseY,
                   callers, cb, fl, sqliteSink, hist, geo>>

\* go collectMetrics(); systray.Run(onReady, onExit) (main.go:218-220)
GoCollectMetrics ==
    /\ main.pc = "go"
    /\ main' = [main EXCEPT !.pc = "systray"]
    /\ MainFrame

\* The flush goroutine before main.go:316.
Unborn == [IdleFl EXCEPT !.pc = "unborn"]

\* collectMetrics (main.go:287-325): the four callbacks are registered, the
\* flush loop is started and hook.Start() begins to deliver events.
CollectMetrics ==
    /\ main.pc = "systray"
    /\ fl = Unborn
    /\ fl' = IdleFl
    /\ callers' = DOMAIN cb
    /\ UNCHANGED <<main, monitors, dbQueries, metrics, totalMetrics, lastMouseX, lastMouseY,
                   cb, sqliteSink, hist, geo>>

\* onReady (main.go:236-247): Quit is clicked in the tray menu; the menu
\* goroutine logs, calls systray.Quit() and returns.
QuitClicked ==
    /\ main.pc = "systray"
    /\ main' = [main EXCEPT !.pc = "quitting"]
    /\ hist' = [hist EXCEPT !.atQuit = metrics]
    /\ UNCHANGED <<monitors, dbQueries, metrics, totalMetrics, lastMouseX, lastMouseY,
                   callers, cb, fl, sqliteSink, geo>>

\* An onExit that writes the since-flush tally to the SQLite sink.
MainReturnsAfterFlush ==
    /\ main.pc = "quitting"
    /\ main' = [main EXCEPT !.pc = "exit"]
    /\ sqliteSink' = Called(sqliteSink, SqliteArgs, TRUE)
    /\ callers' = {}
    /\ fl' = [fl EXCEPT !.pc = "exit"]
    /\ UNCHANGED <<monitors, dbQueries, metrics, totalMetrics, lastMouseX, lastMouseY,
                   cb, hist, geo>>

\* systray.Run returns after onExit (main.go:260-262, empty), main returns
\* (main.go:220-221) and the process ends with all its goroutines.
MainReturns ==
    /\ main.pc = "quitting"
    /\ main' = [main EXCEPT !.pc = "exit"]
    /\ callers' = {}
    /\ fl' = [fl EXCEPT !.pc = "exit"]
    /\ UNCHANGED <<monitors, dbQueries, metrics, totalMetrics, lastMouseX, lastMouseY,
                   cb, sqliteSink, hist, geo>>

----------------------------------------------------------------------------
(* Stand-alone calls of the geometry functions *)

NoGeo == [op |-> "none"]

Lookup ==
    \E x \in GeoX, y \in GeoY :
        /\ geo = NoGeo
        /\ geo' = [op |-> "getMonitorForCoordinates", x |-> x, y |-> y,
                   m |-> getMonitorForCoordinates(x, y)]
        /\ UNCHANGED <<main, monitors, dbQueries, metrics, totalMetrics, lastMouseX, lastMouseY,
                       callers, cb, fl, sqliteSink, hist>>

Distance ==
    \E x1 \in GeoX, y1 \in GeoY, x2 \in GeoX, y2 \in GeoY :
        /\ geo = NoGeo
        /\ geo' = [op |-> "calculateMultiMonitorDistance",
                   x1 |-> x1, y1 |-> y1, x2 |-> x2, y2 |-> y2,
                   sides |-> sideCoordinates(x1, y1, x2, y2),
                   d |-> calculateMultiMonitorDistance(x1, y1, x2, y2)]
        /\ UNCHANGED <<main, monitors, dbQueries, metrics, totalMetrics, lastMouseX, lastMouseY,
                       callers, cb, fl, sqliteSink, hist>>

\* getMonitorSideCoordinates for a monitor of the registry.
Side ==
    \E i \in 1..Len(monitors), x1 \in GeoX, y1 \in GeoY, x2 \in GeoX, y2 \in GeoY :
        /\ geo = NoGeo
        /\ geo' = [op |-> "getMonitorSideCoordinates",
                   x1 |-> x1, y1 |-> y1, x2 |-> x2, y2 |-> y2, m |-> monitors[i],
                   s |-> getMonitorSideCoordinates(x1, y1, x2, y2, monitors[i])]
        /\ UNCHANGED <<main, monitors, dbQueries, metrics, totalMetrics, lastMouseX, lastMouseY,
                       callers, cb, fl, sqliteSink, hist>>

\* A display of unknown physical size to the left of a second display.
ReportNoSizeBeside ==
    <<GlfwMonitor(0, 0, 1920, 1080, 0, 0), GlfwMonitor(1920, 0, 1920, 1080, 254, 142)>>

----------------------------------------------------------------------------
(* The registry replaced while a distance computation runs *)

\* The display subsystem reports another layout: the second display has moved
\* to the left of the first; or one display is left.
ReportMoved ==
    <<GlfwMonitor(0, 0, 1920, 1080, 508, 283), GlfwMonitor(-1920, 0, 1920, 1080, 254, 142)>>

ReplaceReports == {ReportMoved, ReportAspectOnly}

\* What lies in the heap behind the array of a slice: not known, kept by one
\* value, the zero Monitor.
StrayMonitor == Monitor(0, 0, 0, 0, 0, 0, 0)

\* The slice a reader gets from the array arr and the length len.
RECURSIVE SliceOf(_, _)
SliceOf(arr, len) ==
    IF len <= Len(arr)
    THEN SubSeq(arr, 1, len)
    ELSE Append(SliceOf(arr, len - 1), StrayMonitor)

\* `monitors = getMonitors()` stores a slice header of several words and holds
\* no lock: between the stores a reader gets the array of one slice with the
\* length of the other, in the one or in the other order of the stores.
TornSlices(old, new) == {SliceOf(old, Len(new)), SliceOf(new, Len(old))}

\* main.go:112 run again: the first word of the header is stored.
StoreMonitorsFirst ==
    /\ main = MainAt("systray")
    /\ \E glfwMonitors \in ReplaceReports :
         /\ main' = [main EXCEPT !.pc = "storeMonitors", !.glfwMonitors = glfwMonitors]
         /\ \E new \in getMonitors(glfwMonitors) : monitors' \in TornSlices(monitors, new)
    /\ UNCHANGED <<dbQueries, metrics, totalMetrics, lastMouseX, lastMouseY,
                   callers, cb, fl, sqliteSink, hist, geo>>

\* main.go:112 run again: the rest of the header is stored.
StoreMonitorsRest ==
    /\ main.pc = "storeMonitors"
    /\ monitors' \in getMonitors(main.glfwMonitors)
    /\ main' = [main EXCEPT !.pc = "systray"]
    /\ UNCHANGED <<dbQueries, metrics, totalMetrics, lastMouseX, lastMouseY,
                   callers, cb, fl, sqliteSink, hist, geo>>

\* The points of the moves whose distance is computed meanwhile.
ReplacePoints == {<<x, 100>> : x \in {-100, 500, 1900, 1940}}

\* calculateMultiMonitorDistance up to main.go:417: the read lock is taken,
\* which no writer waits for, and m1 is resolved.  seen1: the registry read.
ResolveFirst ==
    /\ geo = NoGeo
    /\ \E p1 \in ReplacePoints, p2 \in ReplacePoints :
         geo' = [op |-> "main.go:417", x1 |-> p1[1], y1 |-> p1[2], x2 |-> p2[1], y2 |-> p2[2],
                 m1 |-> getMonitorForCoordinates(p1[1], p1[2]), seen1 |-> monitors]
    /\ UNCHANGED <<main, monitors, dbQueries, metrics, totalMetrics, lastMouseX, lastMouseY,
                   callers, cb, fl, sqliteSink, hist>>

\* main.go:418: m2 is resolved.  seen2: the registry read.
ResolveSecond ==
    /\ geo.op = "main.go:417"
    /\ geo' = [op |-> "main.go:418", x1 |-> geo.x1, y1 |-> geo.y1, x2 |-> geo.x2, y2 |-> geo.y2,
               m1 |-> geo.m1, seen1 |-> geo.seen1,
               m2 |-> getMonitorForCoordinates(geo.x2, geo.y2), seen2 |-> monitors]
    /\ UNCHANGED <<main, monitors, dbQueries, metrics, totalMetrics, lastMouseX, lastMouseY,
                   callers, cb, fl, sqliteSink, hist>>

----------------------------------------------------------------------------
(* Specifications *)

\* The state after main() reached systray.Run and collectMetrics started the
\* hook and the flush loop.
InitWith(cs, regs, remotes) ==
    /\ main = MainAt("systray")
    /\ monitors \in regs
    /\ dbQueries \in remotes
    /\ metrics = ZeroMetrics
    /\ totalMetrics = ZeroTotalMetrics
    /\ lastMouseX = 0
    /\ lastMouseY = 0
    /\ callers = cs
    /\ cb = [c \in cs |-> IdleCb]
    /\ fl = IdleFl
    /\ sqliteSink = EmptySink
    /\ hist = [quiet |-> FALSE, clean |-> FALSE, sqlite |-> NoCall, remote |-> NoCall,
               failed |-> FALSE, local |-> ZeroMetrics, moved |-> <<>>,
               atQuit |-> ZeroMetrics,
               begun |-> [c \in cs |-> [k \in EventKinds |-> 0]]]
    /\ geo = NoGeo

\* The program: one dispatcher goroutine runs the callbacks, one runs the flush loop.
Init == InitWith({1}, {RegistryAdjacent}, BOOLEAN)

Next ==
    \/ \E c \in callers : Begun(c) < MaxEvents /\ KeyDown(c)
    \/ \E c \in callers : Begun(c) < MaxEvents /\ MouseDown(c)
    \/ \E c \in callers : Begun(c) < MaxEvents /\ MouseMove(c)
    \/ \E c \in callers : Begun(c) < MaxEvents /\ MouseWheel(c)
    \/ \E c \in callers : CbLoad(c)
    \/ \E c \in callers : CbStore(c)
    \/ \E c \in callers : SetLastMouse(c)
    \/ SleepElapses
    \/ Tick
    \/ SqliteExecFail
    \/ SqliteExecOk
    \/ RemoteArg
    \/ RemoteExecOk
    \/ RemoteExecFail
    \/ Reset

Spec == Init /\ [][Next]_vars

\* Two callers run the counter callbacks concurrently; no flush.
InitConc == InitWith({1, 2}, {RegistryAdjacent}, {FALSE})

NextConc ==
    \/ \E c \in callers : Begun(c) < MaxPerCaller /\ KeyDown(c)
    \/ \E c \in callers : Begun(c) < MaxPerCaller /\ MouseDown(c)
    \/ \E c \in callers : CbLoad(c)
    \/ \E c \in callers : CbStore(c)

SpecConc == InitConc /\ [][NextConc]_vars

\* The program from the start of main().
InitMain ==
    /\ main = MainAt("initLogger")
    /\ monitors = <<>>
    /\ dbQueries = FALSE
    /\ metrics = NilPtr
    /\ totalMetrics = NilPtr
    /\ lastMouseX = 0
    /\ lastMouseY = 0
    /\ callers = {}
    /\ cb = [c \in {1} |-> IdleCb]
    /\ fl = Unborn
    /\ sqliteSink = EmptySink
    /\ hist = [quiet |-> FALSE, clean |-> FALSE, sqlite |-> NoCall, remote |-> NoCall,
               failed |-> FALSE, local |-> ZeroMetrics, moved |-> <<>>,
               atQuit |-> ZeroMetrics,
               begun |-> [c \in {1} |-> [k \in EventKinds |-> 0]]]
    /\ geo = NoGeo

NextMain ==
    \/ InitLoggerOk
    \/ InitLoggerFail
    \/ GlfwInitOk
    \/ GlfwInitFail
    \/ GlfwInitMonitors
    \/ InitializeDB
    \/ NewTallies
    \/ GoCollectMetrics
    \/ CollectMetrics
    \/ \E c \in callers : Begun(c) < MaxStartEvents /\ KeyDown(c)
    \/ \E c \in callers : Begun(c) < MaxStartEvents /\ MouseDown(c)
    \/ \E c \in callers : Begun(c) < MaxStartEvents /\ MouseMove(c)
    \/ \E c \in callers : Begun(c) < MaxStartEvents /\ MouseWheel(c)
    \/ \E c \in callers : Begun(c) < MaxStartEvents /\ MouseMovePanics(c)
    \/ \E c \in callers : CbLoad(c)
    \/ \E c \in callers : CbStore(c)
    \/ \E c \in callers : SetLastMouse(c)
    \/ SleepElapses
    \/ Tick
    \/ SqliteExecFail
    \/ SqliteExecOk
    \/ RemoteArg
    \/ RemoteExecOk
    \/ RemoteExecFail
    \/ Reset

SpecMain == InitMain /\ [][NextMain]_vars

\* One distance computation while glfwInit's assignment of the registry runs
\* once more, on the adjacent layout.
\* The running program with key presses, the flush loop and the Quit item of
\* the tray menu.
InitQuit == InitWith({1}, {RegistryAdjacent}, BOOLEAN)

NextQuit ==
    \/ \E c \in callers : Begun(c) < MaxStartEvents /\ KeyDown(c)
    \/ \E c \in callers : CbLoad(c)
    \/ \E c \in callers : CbStore(c)
    \/ SleepElapses
    \/ Tick
    \/ SqliteExecFail
    \/ SqliteExecOk
    \/ RemoteArg
    \/ RemoteExecOk
    \/ RemoteExecFail
    \/ Reset
    \/ QuitClicked
    \/ MainReturns

SpecQuit == InitQuit /\ [][NextQuit]_vars

InitReplace == InitWith({}, {RegistryAdjacent}, {FALSE})

NextReplace == StoreMonitorsFirst \/ StoreMonitorsRest \/ ResolveFirst \/ ResolveSecond

SpecReplace == InitReplace /\ [][NextReplace]_vars

\* The geometry functions applied to every point of GeoX x GeoY on every
\* layout, and on the registry built for a display of unknown size.
InitGeom == InitWith({}, Registries \cup getMonitors(ReportNoSizeBeside), {FALSE})

NextGeom == Lookup \/ Distance \/ Side

SpecGeom == InitGeom /\ [][NextGeom]_vars

----------------------------------------------------------------------------
(* Claims *)

CountFields == {"Keypresses", "MouseClicks", "ScrollSteps"}

TotalOf(f) ==
    CASE f = "Keypresses" -> "TotalKeypresses"
      [] f = "MouseClicks" -> "TotalMouseClicks"
      [] f = "MouseDistanceIn" -> "TotalMouseDistanceIn"
      [] f = "MouseDistanceMi" -> "TotalMouseDistanceMi"
      [] f = "ScrollSteps" -> "TotalScrollSteps"

AllIdle == \A c \in callers : cb[c].pc = "idle"

\* C1: saveMetrics reaches resetMetrics only in a cycle in which every sink
\* write it attempted reported success; after a failed write the tally is left
\* as it was.
C1_ResetOnlyAfterEverySinkSucceeded == fl.pc = "reset" => ~fl.err

\* C2: whenever no flush and no callback is in progress, each lifetime count
\* equals the sum of that count over the rows the SQLite sink accepted plus the
\* current since-flush count.
C2_NoCountedEventLost ==
    (fl.pc = "sleep" /\ AllIdle) =>
        \A f \in CountFields : totalMetrics[TotalOf(f)] = sqliteSink[f] + metrics[f]

\* C3: when a sink's write failed in the cycle before, no callback has taken a
\* step since that cycle read its arguments (none is in progress), and the
\* sink's write of this cycle succeeds, the arguments of this write equal the
\* arguments of the failed one.
C3_FlushIdempotentUnderFailure ==
    [][/\ (/\ fl.pc = "sqliteExec" /\ fl'.pc \in {"remoteArgs", "reset"}
           /\ hist.sqlite.failed /\ AllIdle)
            => fl.args = hist.sqlite.args
       /\ (/\ fl.pc = "remoteExec" /\ fl'.pc = "reset" /\ ~fl'.err
           /\ hist.remote.failed /\ AllIdle)
            => fl.args = hist.remote.args]_vars

\* C4: once resetMetrics has run (the SQLite write of the cycle succeeded) and
\* until a callback takes its next step, every field of the since-flush tally
\* is zero: the three counts are 0 and both distances are the empty sum.
C4_ZeroAfterSuccessfulFlush ==
    hist.clean =>
        /\ metrics.Keypresses = 0
        /\ metrics.MouseClicks = 0
        /\ metrics.MouseDistanceIn = EmptyBag
        /\ metrics.MouseDistanceMi = EmptyBag
        /\ metrics.ScrollSteps = 0

\* C4 witness: a mouse move and a key press were flushed and reset.
C4_Witness ==
    /\ hist.clean
    /\ fl.pc = "sleep"
    /\ sqliteSink.Keypresses = 1
    /\ sqliteSink.MouseDistanceMi # EmptyBag

\* C5: no step of the flush routine changes the lifetime tally, whatever the
\* sinks answer, and no step at all puts a field of the lifetime tally back to
\* zero.
C5_FlushLeavesLifetimeTally ==
    [][/\ fl' # fl => totalMetrics' = totalMetrics
       /\ \A f \in DOMAIN totalMetrics :
            totalMetrics[f] # Zero(f) => totalMetrics'[f] # Zero(f)]_vars

\* C5 witness: resetMetrics has run while the lifetime tally was not zero, in a
\* run in which a sink write failed too.
C5_Witness ==
    /\ hist.clean
    /\ totalMetrics.TotalKeypresses = 1
    /\ totalMetrics.TotalScrollSteps > 0

RECURSIVE SumBegun(_, _)
SumBegun(S, kind) ==
    IF S = {} THEN 0
    ELSE LET c == CHOOSE c \in S : TRUE
         IN  hist.begun[c][kind] + SumBegun(S \ {c}, kind)

\* C6: when every caller has returned from its callbacks, the lifetime count of
\* keypresses is the number of key-down callbacks run by all callers together,
\* and the lifetime count of clicks the number of mouse-down callbacks.
C6_NoLostUpdates ==
    AllIdle =>
        /\ totalMetrics.TotalKeypresses = SumBegun(callers, "KeyDown")
        /\ totalMetrics.TotalMouseClicks = SumBegun(callers, "MouseDown")

\* The kind of the callback of caller c that takes this step, "none" if none does.
Stepping(c) ==
    IF cb'[c] = cb[c] THEN "none"
    ELSE IF cb[c].pc = "idle" THEN cb'[c].kind ELSE cb[c].kind

\* A step of a callback that counts by n in the field `counted`: the store of
\* its first statement puts the loaded value plus n into the since-flush field,
\* the store of its second adds n to the lifetime field, and nothing else of
\* the tallies and of the cursor position changes.
CountsBy(c, counted, n) ==
    /\ lastMouseX' = lastMouseX
    /\ lastMouseY' = lastMouseY
    /\ \A f \in DOMAIN metrics : f # counted => metrics'[f] = metrics[f]
    /\ \A f \in DOMAIN totalMetrics : f # TotalOf(counted) => totalMetrics'[f] = totalMetrics[f]
    /\ metrics'[counted] =
         IF cb[c].pc = "store" /\ cb[c].stmt = 1 THEN cb[c].reg + n ELSE metrics[counted]
    /\ totalMetrics'[TotalOf(counted)] =
         IF cb[c].pc = "store" /\ cb[c].stmt = 2
         THEN totalMetrics[TotalOf(counted)] + n
         ELSE totalMetrics[TotalOf(counted)]
    /\ cb[c].pc = "store" /\ cb[c].stmt = 2 => cb'[c].pc = "idle"

\* C7: a key-down event adds exactly 1 to the since-flush keypresses it read
\* and exactly 1 to the lifetime keypresses, once each, and changes no other
\* tally field and not the cursor position; a mouse-down event does the same
\* with the click fields.
C7_KeyAndClickEffect ==
    [][\A c \in callers :
         /\ Stepping(c) = "KeyDown" => CountsBy(c, "Keypresses", 1)
         /\ Stepping(c) = "MouseDown" => CountsBy(c, "MouseClicks", 1)
         /\ cb'[c].pc = "idle" =>
              /\ totalMetrics'.TotalKeypresses = hist'.begun[c]["KeyDown"]
              /\ totalMetrics'.TotalMouseClicks = hist'.begun[c]["MouseDown"]]_vars

\* C7 witness: one key-down and one mouse-down event have been counted.
C7_Witness ==
    /\ AllIdle
    /\ \A c \in callers : hist.begun[c]["KeyDown"] = 1 /\ hist.begun[c]["MouseDown"] = 1
    /\ metrics.Keypresses = 1 /\ totalMetrics.TotalKeypresses = 1
    /\ metrics.MouseClicks = 1 /\ totalMetrics.TotalMouseClicks = 1
    /\ lastMouseX = 0 /\ lastMouseY = 0

\* |r| as the natural number whose square is r * r.
Magnitude(r) == CHOOSE n \in 0..(r * r) : n * n = r * r

\* C8: a mouse-wheel event of rotation r adds exactly |r| >= 0 to the
\* since-flush scroll steps it read and to the lifetime scroll steps, and
\* changes no other field; rotation -3 adds 3.
C8_WheelAddsMagnitude ==
    [][\A c \in callers :
         Stepping(c) = "MouseWheel" =>
            LET r == IF cb[c].pc = "idle" THEN cb'[c].rotation ELSE cb[c].rotation
            IN  /\ CountsBy(c, "ScrollSteps", Magnitude(r))
                /\ r = -3 => CountsBy(c, "ScrollSteps", 3)]_vars

\* C8 witness: a wheel event of rotation -3 has been counted as 3 steps.
C8_Witness ==
    /\ AllIdle
    /\ \A c \in callers : hist.begun[c]["MouseWheel"] = 1
    /\ metrics.ScrollSteps = 3
    /\ totalMetrics.TotalScrollSteps = 3

\* The half-open pixel rectangle of monitor m, as sets of coordinates.
InRectangle(m, x, y) ==
    /\ x \in m.XPos .. (m.XPos + m.WidthPx - 1)
    /\ y \in m.YPos .. (m.YPos + m.HeightPx - 1)

Hits(x, y) == {i \in 1..Len(monitors) : InRectangle(monitors[i], x, y)}

\* C9: on a non-empty registry getMonitorForCoordinates(x, y) returns the
\* first monitor, in registry order, whose half-open rectangle contains (x, y),
\* and the first monitor of the registry when none contains it.
C9_MonitorLookup ==
    (geo.op = "getMonitorForCoordinates" /\ Len(monitors) > 0) =>
        IF Hits(geo.x, geo.y) # {}
        THEN /\ InRectangle(geo.m, geo.x, geo.y)
             /\ \E i \in Hits(geo.x, geo.y) :
                   /\ geo.m = monitors[i]
                   /\ \A j \in Hits(geo.x, geo.y) : i <= j
        ELSE geo.m = monitors[1]

\* C9 witness: a point on no display of a two-display registry resolved to the
\* first display.
C9_Witness ==
    /\ geo.op = "getMonitorForCoordinates"
    /\ Len(monitors) = 2
    /\ Hits(geo.x, geo.y) = {}
    /\ geo.m = monitors[1]

\* The sum with the one term sqrt(n) / ppi.
Inches(n, ppi) == IF n = 0 THEN EmptyBag ELSE SetToBag({[sq |-> n, ppi |-> ppi, per |-> 1]})

\* C10: when both endpoints of a move resolve to the same monitor m, the
\* distance is sqrt(dx^2 + dy^2) / m.Ppi; on the layout whose first display
\* spans x in [0,1920) at 96 PPI the move (100,100) -> (500,100) gives 400 / 96.
C10_SameMonitorDistance ==
    geo.op = "calculateMultiMonitorDistance" =>
        LET m1 == getMonitorForCoordinates(geo.x1, geo.y1)
            m2 == getMonitorForCoordinates(geo.x2, geo.y2)
            dx == geo.x2 - geo.x1
            dy == geo.y2 - geo.y1
        IN  /\ m1 = m2 => geo.d = Inches(dx * dx + dy * dy, m1.Ppi)
            /\ (/\ monitors = RegistryAdjacent
                /\ <<geo.x1, geo.y1, geo.x2, geo.y2>> = <<100, 100, 500, 100>>)
                 => geo.d = Inches(400 * 400, 96)

\* C10 witness: the move (100,100) -> (500,100) on the 96 PPI display.
C10_Witness ==
    /\ geo.op = "calculateMultiMonitorDistance"
    /\ monitors = RegistryAdjacent
    /\ <<geo.x1, geo.y1, geo.x2, geo.y2>> = <<100, 100, 500, 100>>
    /\ geo.d = Inches(160000, 96)

\* The move of the cross-monitor scenario on the adjacent layout.
CrossMove ==
    /\ geo.op = "calculateMultiMonitorDistance"
    /\ monitors = RegistryAdjacent
    /\ <<geo.x1, geo.y1, geo.x2, geo.y2>> = <<1900, 100, 1940, 100>>

\* C11 as stated: on the adjacent layout (A: x in [0,1920) at 96 PPI, B: x in
\* [1920,3840) at 192 PPI) the move (1900,100) -> (1940,100) has the exit
\* point (1920,100) on A and (1920,100) on B, and the distance 20/96 + 20/96.
C11_CrossMonitorScenarioAsStated ==
    CrossMove =>
        /\ geo.sides = <<(<<1920, 100>>), (<<1920, 100>>)>>
        /\ geo.d = Inches(20 * 20, 96) (+) Inches(20 * 20, 96)

\* C11 amended: on the adjacent layout the move (1900,100) -> (1940,100) has
\* the exit point (1919,100) on A, the last pixel column of A, and the
\* destination (1940,100) itself as the exit point on B, which contains it;
\* the distance is 19/96 + 40/96 = 59/96 inches.
C11_CrossMonitorScenario ==
    CrossMove =>
        /\ geo.sides = <<(<<1919, 100>>), (<<1940, 100>>)>>
        /\ geo.d = Inches(19 * 19, 96) (+) Inches(40 * 40, 96)

\* C11 witness: the scenario's move has been computed as two segments.
C11_Witness == CrossMove /\ Len(geo.sides) = 2 /\ BagCardinality(geo.d) = 2

\* The destination (x2, y2) clamped against the rectangle of monitor m: the
\* first edge, in the order left, right, top, bottom, that the destination
\* lies beyond; the other coordinate is that of the origin (x1, y1).
ClampTo(m, x1, y1, x2, y2) ==
    LET columns == m.XPos .. (m.XPos + m.WidthPx - 1)
        rows == m.YPos .. (m.YPos + m.HeightPx - 1)
    IN  CASE x2 < m.XPos -> <<m.XPos, y1>>
          [] x2 > m.XPos + m.WidthPx - 1 -> <<m.XPos + m.WidthPx - 1, y1>>
          [] x2 \in columns /\ y2 < m.YPos -> <<x1, m.YPos>>
          [] x2 \in columns /\ y2 > m.YPos + m.HeightPx - 1 -> <<x1, m.YPos + m.HeightPx - 1>>
          [] x2 \in columns /\ y2 \in rows -> <<x2, y2>>

\* The squared pixel distance of two points.
PixelDist2(p, q) == (q[1] - p[1]) * (q[1] - p[1]) + (q[2] - p[2]) * (q[2] - p[2])

\* C12: when the endpoints of a move resolve to different monitors m1 and m2,
\* the distance is pixelDist(p1, exit1) / m1.Ppi + pixelDist(p1, exit2) / m1.Ppi
\* with exit1, exit2 the destination clamped against m1, m2 (edges in the
\* order left, right, top, bottom, the other coordinate that of the origin);
\* every term is divided by m1.Ppi, none by m2.Ppi.
C12_CrossMonitorDistance ==
    geo.op = "calculateMultiMonitorDistance" =>
        LET m1 == getMonitorForCoordinates(geo.x1, geo.y1)
            m2 == getMonitorForCoordinates(geo.x2, geo.y2)
            p1 == <<geo.x1, geo.y1>>
            exit1 == ClampTo(m1, geo.x1, geo.y1, geo.x2, geo.y2)
            exit2 == ClampTo(m2, geo.x1, geo.y1, geo.x2, geo.y2)
        IN  m1 # m2 =>
              /\ geo.sides = <<exit1, exit2>>
              /\ geo.d = Inches(PixelDist2(p1, exit1), m1.Ppi)
                           (+) Inches(PixelDist2(p1, exit2), m1.Ppi)
              /\ \A t \in BagToSet(geo.d) : t.ppi = m1.Ppi

\* C12 witness: a move from the 192 PPI display to a point below every
\* display, which resolves to the first display: the exit on the origin's
\* monitor is on its bottom edge, the exit on the other on its right edge.
C12_Witness ==
    /\ geo.op = "calculateMultiMonitorDistance"
    /\ monitors = RegistryAdjacent
    /\ <<geo.x1, geo.y1, geo.x2, geo.y2>> = <<1940, 100, 1940, 1080>>
    /\ geo.sides = <<(<<1940, 1079>>), (<<1919, 100>>)>>
    /\ geo.d = Inches(979 * 979, 192) (+) Inches(21 * 21, 192)

\* The positions of one flush cycle, in program order.
FlushRank(pc) ==
    CASE pc = "sleep" -> 0
      [] pc = "sqliteExec" -> 1
      [] pc = "remoteArgs" -> 2
      [] pc = "remoteExec" -> 3
      [] pc = "reset" -> 4

\* A step of saveMetrics.
SaveMetricsStep ==
    \/ SqliteExecFail \/ SqliteExecOk \/ RemoteArg \/ RemoteExecOk \/ RemoteExecFail \/ Reset

\* C14: every step of the flush goroutine either returns to the sleep of the
\* loop or moves forward in saveMetrics, so that between two ticks each sink
\* is written to at most once; a failed write of the SQLite sink returns to
\* the sleep at once, a write of the remote sink, failed or not, is followed
\* by the reset and the sleep; saveMetrics can always take its next step.
C14_OneAttemptPerSinkPerTick ==
    [][/\ fl' # fl => (fl'.pc = "sleep" \/ FlushRank(fl'.pc) > FlushRank(fl.pc))
       /\ (fl.pc = "sqliteExec" /\ fl' # fl /\ hist'.failed) => fl' = IdleFl
       /\ (fl.pc = "remoteExec" /\ fl' # fl) => fl'.pc = "reset"
       /\ (fl.pc = "reset" /\ fl' # fl) => fl' = IdleFl
       /\ fl.pc # "sleep" => ENABLED SaveMetricsStep
       /\ fl'.pc # "sleep" => (ENABLED SaveMetricsStep)']_vars

\* C14 witness: the tick after a cycle whose SQLite write failed has come and
\* the write is about to be attempted again.
C14_Witness ==
    /\ fl.pc = "sqliteExec"
    /\ hist.sqlite.failed
    /\ fl.args.Keypresses = 1

\* The real a is at most the real b: b is a plus a sum of terms, each of them
\* a square root over a positive divisor, or a positive square root over 0
\* (+Inf).
LeqReal(a, b) ==
    /\ a \sqsubseteq b
    /\ \A t \in BagToSet(b (-) a) : t.ppi > 0 \/ (t.ppi = 0 /\ t.sq > 0)

Leq(f, a, b) == IF f \in RealFields THEN LeqReal(a, b) ELSE a <= b

\* C17: no step lowers a field of the lifetime tally, and the only step that
\* lowers a field of the since-flush tally is resetMetrics, which sets it to
\* zero.
C17_TalliesNonDecreasing ==
    [][(metrics # NilPtr /\ metrics' # NilPtr) =>
         /\ \A f \in DOMAIN totalMetrics : Leq(f, totalMetrics[f], totalMetrics'[f])
         /\ \A f \in DOMAIN metrics :
              \/ Leq(f, metrics[f], metrics'[f])
              \/ fl.pc = "reset" /\ fl'.pc = "sleep" /\ metrics'[f] = Zero(f)]_vars

\* d / 63360
Miles(d) == BagOfAll(LAMBDA t : [sq |-> t.sq, ppi |-> t.ppi, per |-> t.per * 63360], d)

\* A step of the mouse-move callback of caller c, delivering (x, y): it takes
\* d, the distance from the last cursor position to (x, y); the store of
\* statement 1 and 3 puts the loaded inches plus d into the since-flush and the
\* lifetime inches, the store of statement 2 and 4 the loaded miles plus
\* d / 63360 into the miles; the last step stores (x, y) as the cursor
\* position.  Nothing else of the tallies and of the cursor position changes.
MoveStep(c) ==
    LET pc == cb[c].pc
        n == cb[c].stmt
        d == cb[c].distance
        Stored(k) == pc = "store" /\ n = k
    IN  /\ pc = "idle" =>
             cb'[c].distance =
                 calculateMultiMonitorDistance(lastMouseX, lastMouseY, cb'[c].x, cb'[c].y)
        /\ pc # "idle" => <<cb'[c].x, cb'[c].y, cb'[c].distance>> \in {<<cb[c].x, cb[c].y, d>>, <<0, 0, 0>>}
        /\ \A f \in {"Keypresses", "MouseClicks", "ScrollSteps"} :
               metrics'[f] = metrics[f] /\ totalMetrics'[TotalOf(f)] = totalMetrics[TotalOf(f)]
        /\ metrics'.MouseDistanceIn =
               IF Stored(1) THEN cb[c].reg (+) d ELSE metrics.MouseDistanceIn
        /\ metrics'.MouseDistanceMi =
               IF Stored(2) THEN cb[c].reg (+) Miles(d) ELSE metrics.MouseDistanceMi
        /\ totalMetrics'.TotalMouseDistanceIn =
               IF Stored(3) THEN totalMetrics.TotalMouseDistanceIn (+) d
               ELSE totalMetrics.TotalMouseDistanceIn
        /\ totalMetrics'.TotalMouseDistanceMi =
               IF Stored(4) THEN totalMetrics.TotalMouseDistanceMi (+) Miles(d)
               ELSE totalMetrics.TotalMouseDistanceMi
        /\ <<lastMouseX', lastMouseY'>> =
               IF pc = "setLast" THEN <<cb[c].x, cb[c].y>> ELSE <<lastMouseX, lastMouseY>>
        /\ (pc = "store" /\ n = 4) => cb'[c].pc = "setLast"
        /\ pc = "setLast" => cb'[c].pc = "idle"

\* C19: a mouse-move event delivering (x, y) takes the distance d from the last
\* stored cursor position to (x, y), adds d to the since-flush inches it read
\* and to the lifetime inches, d / 63360 to the since-flush miles it read and
\* to the lifetime miles, then stores (x, y) as the last cursor position; it
\* changes no keypress, click or scroll field, and no step of another event
\* kind or of the flush changes the cursor position.
C19_MouseMoveEffect ==
    [][/\ \A c \in callers : Stepping(c) = "MouseMove" => MoveStep(c)
       /\ <<lastMouseX', lastMouseY'>> # <<lastMouseX, lastMouseY>> =>
              \E c \in callers : Stepping(c) = "MouseMove"]_vars

\* C19 witness: the first event moved the cursor from (0,0) to (500,100) on the
\* 96 PPI display.
C19_Witness ==
    /\ AllIdle
    /\ \A c \in callers : Begun(c) = 1 /\ hist.begun[c]["MouseMove"] = 1
    /\ <<lastMouseX, lastMouseY>> = <<500, 100>>
    /\ totalMetrics.TotalMouseDistanceIn = Inches(500 * 500 + 100 * 100, 96)
    /\ metrics.MouseDistanceIn = Inches(500 * 500 + 100 * 100, 96)
    /\ metrics.MouseDistanceMi =
           SetToBag({[sq |-> 260000, ppi |-> 96, per |-> 63360]})
    /\ totalMetrics.TotalMouseDistanceMi = metrics.MouseDistanceMi

\* C15: a failed sink write ends neither the flush loop nor the counting.  The
\* step that reports the failure leaves saveMetrics on its way back to the
\* sleep of the loop, from which the next tick is enabled; and from the report
\* until the next tick every callback can still be entered and every step of a
\* callback has its effect on both tallies: a callback that returns leaves
\* the lifetime counts equal to the events its caller delivered.
C15_FailureBlocksNothing ==
    [][/\ (fl.pc \in {"sqliteExec", "remoteExec"} /\ hist'.failed) =>
              /\ fl'.pc \in {"sleep", "reset"}
              /\ callers' = callers
       /\ (fl'.pc = "sleep" /\ hist'.failed) => (ENABLED SleepElapses \/ ENABLED Tick)'
       /\ \A c \in callers :
            hist.failed =>
              /\ cb[c].pc = "idle" => ENABLED KeyDown(c) /\ ENABLED MouseMove(c)
              /\ Stepping(c) = "KeyDown" => CountsBy(c, "Keypresses", 1)
              /\ Stepping(c) = "MouseDown" => CountsBy(c, "MouseClicks", 1)
              /\ Stepping(c) = "MouseWheel" =>
                    CountsBy(c, "ScrollSteps",
                             Magnitude(IF cb[c].pc = "idle" THEN cb'[c].rotation
                                       ELSE cb[c].rotation))
              /\ Stepping(c) = "MouseMove" => MoveStep(c)
              /\ (Stepping(c) # "none" /\ cb'[c].pc = "idle") =>
                    /\ totalMetrics'.TotalKeypresses = hist'.begun[c]["KeyDown"]
                    /\ totalMetrics'.TotalMouseClicks = hist'.begun[c]["MouseDown"]]_vars

\* C15 witness: the only event, a key press, was delivered during or after a
\* cycle whose write failed and is counted in both tallies; the loop sleeps.
C15_Witness ==
    /\ fl.pc = "sleep"
    /\ hist.failed
    /\ ~hist.quiet
    /\ AllIdle
    /\ \A c \in callers : Begun(c) = 1 /\ hist.begun[c]["KeyDown"] = 1
    /\ metrics.Keypresses = 1
    /\ totalMetrics.TotalKeypresses = 1

\* C16: when callbacks can run, the registry is not empty, and no run ends with
\* the distance computation indexing an empty registry.
C16_RegistryNonEmptyBeforeEvents ==
    /\ callers # {} => Len(monitors) > 0
    /\ main.err # IndexOutOfRange

\* The pixels per inch of the glfw monitor g, averaged over both directions and
\* truncated, are p: p <= (w / (wmm / 25.4) + h / (hmm / 25.4)) / 2 < p + 1.
AveragePpi(g, p) ==
    LET pixels == 127 * (g.Width * g.HeightMM + g.Height * g.WidthMM)
        area == 10 * g.WidthMM * g.HeightMM
    IN  p * area <= pixels /\ pixels < (p + 1) * area

\* C18: every monitor getMonitors stores has positive pixel dimensions,
\* positive physical dimensions and a PPI of at least 1 that is the average of
\* the horizontal and the vertical pixels per inch of the display it was built
\* from, whatever glfw reports.
C18_StoredMonitorsWellFormed ==
    /\ Len(monitors) = Len(main.glfwMonitors)
    /\ \A i \in 1..Len(monitors) :
         /\ monitors[i].WidthPx > 0 /\ monitors[i].HeightPx > 0
         /\ monitors[i].WidthIn > 0 /\ monitors[i].HeightIn > 0
         /\ monitors[i].Ppi >= 1
         /\ AveragePpi(main.glfwMonitors[i], monitors[i].Ppi)

\* C20: in a run in which glfw.Init() failed the process has ended, the
\* tallies were never created (both pointers are nil), the registry was never
\* filled, no callback was registered and no event delivered, the flush loop
\* was never started and the metrics table holds no row.
C20_DisplayFailureIsFatal ==
    main.err = "glfw.Init" =>
        /\ main.pc = "exit"
        /\ metrics = NilPtr /\ totalMetrics = NilPtr
        /\ monitors = <<>>
        /\ callers = {}
        /\ \A c \in DOMAIN cb : Begun(c) = 0 /\ cb[c] = IdleCb
        /\ fl = Unborn
        /\ sqliteSink = EmptySink

\* C20 witness: glfw.Init() failed and the process has ended.
C20_Witness == main.err = "glfw.Init" /\ main.pc = "exit" /\ metrics = NilPtr

\* The whole monitor sets of a run in which the registry is replaced: the one
\* before and the ones that may be assigned.
WholeSets == {RegistryAdjacent} \cup UNION {getMonitors(r) : r \in ReplaceReports}

C26_SecondSegmentIsWholeMove ==
    geo.op = "calculateMultiMonitorDistance" =>
        LET m1 == getMonitorForCoordinates(geo.x1, geo.y1)
            m2 == getMonitorForCoordinates(geo.x2, geo.y2)
            whole == Inches(PixelDist2(<<geo.x1, geo.y1>>, <<geo.x2, geo.y2>>), m1.Ppi)
        IN  (m1 # m2 /\ InRectangle(m2, geo.x2, geo.y2)) =>
              /\ geo.sides[2] = <<geo.x2, geo.y2>>
              /\ whole \sqsubseteq geo.d
              /\ LeqReal(whole, geo.d)

\* C22: saveMetrics reaches the call of the remote sink only by the step in
\* which the SQLite write of the same cycle stored its row; the step in which
\* the SQLite write fails returns to the sleep of the loop with the since-flush
\* tally as it was, so that neither the remote sink nor the reset follows
\* before the next tick; and the reset is reached only from a stored row or
\* from the call of the remote sink.
C22_RemoteAfterLocalSuccess ==
    [][/\ (fl'.pc = "remoteArgs" /\ fl' # fl) =>
              /\ fl.pc = "sqliteExec"
              /\ ~hist'.failed
              /\ sqliteSink' = Called(sqliteSink, fl.args, TRUE)
       /\ (fl'.pc = "remoteExec" /\ fl' # fl) => fl.pc = "remoteArgs"
       /\ (fl.pc = "sqliteExec" /\ hist'.failed) =>
              /\ fl' = IdleFl
              /\ metrics' = metrics
              /\ sqliteSink' = sqliteSink
       /\ (fl'.pc = "reset" /\ fl' # fl) =>
              \/ fl.pc = "sqliteExec" /\ ~hist'.failed /\ ~dbQueries
              \/ fl.pc = "remoteExec"
       /\ (fl.pc # "reset" /\ metrics' # metrics) =>
              \E f \in DOMAIN metrics : ~Leq(f, metrics'[f], metrics[f])]_vars

\* C22 witness: with a remote sink configured the SQLite write of the latest
\* cycle failed; the loop sleeps, the remote sink was not called and the key
\* press is still in the since-flush tally.
C22_Witness ==
    /\ dbQueries
    /\ fl = IdleFl
    /\ hist.failed
    /\ hist.sqlite.failed
    /\ hist.remote = NoCall
    /\ metrics.Keypresses = 1
    /\ sqliteSink = EmptySink

\* C23: in a cycle that writes to both sinks, the record the remote sink is
\* called with is, field for field, the record the SQLite sink stored, and the
\* values resetMetrics clears are the values of that record, whatever steps of
\* callbacks come between the steps of the cycle.
C23_SameRecordToBothSinks ==
    [][/\ (fl.pc = "remoteExec" /\ fl' # fl) =>
              \A f \in DOMAIN hist.local : fl.args[f] = hist.local[f]
       /\ (dbQueries /\ fl.pc = "reset" /\ fl' # fl) =>
              \A f \in DOMAIN hist.local : metrics[f] = hist.local[f]]_vars

\* The mouse-move events delivered so far.
Moves == SumBegun(DOMAIN cb, "MouseMove")

\* C27: as long as no mouse-move event has been delivered the stored cursor
\* position is (0, 0); the distance a mouse-move callback takes is measured
\* from (0, 0) when it is the first of the run and from the position the
\* mouse-move event before it delivered otherwise; and when the first
\* mouse-move callback has returned, the lifetime inches are the distance from
\* (0, 0) to the position it delivered and the since-flush inches are that
\* distance or were cleared by a reset.
C27_MeasuredFromPrecedingMove ==
    [][/\ Moves = 0 => <<lastMouseX, lastMouseY>> = <<0, 0>>
       /\ \A c \in callers :
            (cb[c].pc = "idle" /\ cb'[c].kind = "MouseMove") =>
                LET from == IF Moves = 0 THEN <<0, 0>> ELSE hist.moved
                IN  cb'[c].distance =
                        calculateMultiMonitorDistance(from[1], from[2], cb'[c].x, cb'[c].y)
       /\ (AllIdle' /\ Moves' = 1) =>
            LET first == calculateMultiMonitorDistance(0, 0, hist'.moved[1], hist'.moved[2])
            IN  /\ totalMetrics'.TotalMouseDistanceIn = first
                /\ metrics'.MouseDistanceIn \in {first, EmptyBag}]_vars

\* C27 witness: the second mouse-move event, to (500,100), has been delivered
\* after a first one to (1940,100) and is measured from there.
C27_Witness ==
    /\ Moves = 2
    /\ hist.moved = <<500, 100>>
    /\ <<lastMouseX, lastMouseY>> = <<1940, 100>>
    /\ \E c \in callers :
         /\ cb[c].kind = "MouseMove"
         /\ cb[c].distance = calculateMultiMonitorDistance(1940, 100, 500, 100)
         /\ cb[c].distance # calculateMultiMonitorDistance(0, 0, 500, 100)

\* C24: the flush goroutine is started once and is either in time.Sleep or in
\* one call of saveMetrics.  saveMetrics is called only out of a sleep that
\* lasted its whole period; a sleep begins, with nothing of its period
\* elapsed, only when the goroutine starts or when saveMetrics has returned
\* (after the failed INSERT or after the reset); and the time slept only grows
\* while the goroutine sleeps.
C24_CycleOnlyAfterWholeSleep ==
    [][/\ fl.pc # "unborn" => fl'.pc # "unborn"
       /\ (fl'.pc = "sqliteExec" /\ fl' # fl) =>
              /\ fl.pc = "sleep"
              /\ fl.i = SleepPeriods
       /\ (fl'.pc = "sleep" /\ fl.pc # "sleep") =>
              /\ fl.pc \in {"unborn", "sqliteExec", "reset"}
              /\ fl'.i = 0
       /\ (fl'.pc = "sleep" /\ fl.pc = "sleep") => fl'.i \in {fl.i, fl.i + 1}]_vars

\* C24 witness: a second cycle has begun, after the first one stored the key
\* press, cleared the tally and returned.
C24_Witness ==
    /\ fl.pc = "sqliteExec"
    /\ fl.args = ZeroMetrics
    /\ sqliteSink.Keypresses = 1
    /\ metrics = ZeroMetrics
    /\ hist.clean

\* A step of a run without a config file in which no remote sink exists or is
\* called, and in which only the INSERT of a cycle changes the SQLite sink.
LocalOnly ==
    /\ ~dbQueries'
    /\ fl'.pc \notin {"remoteArgs", "remoteExec"}
    /\ sqliteSink' # sqliteSink => fl.pc = "sqliteExec"
    /\ (fl'.pc = "sqliteExec" /\ fl' # fl) => fl.pc = "sleep"

Stored == fl.pc = "sqliteExec" /\ fl' # fl /\ fl'.pc # "exit" /\ ~hist'.failed

\* C28 as stated: once Quit was clicked no record is stored that holds a count
\* the since-flush tally held at that moment.
C28_TallyAtQuitNeverPersistedAsStated ==
    [][(main.pc = "quitting" /\ Stored) =>
          \A f \in {"Keypresses", "MouseClicks", "ScrollSteps"} :
              hist.atQuit[f] = 0 \/ fl.args[f] = 0]_vars

\* C28: the click on Quit and the return of systray.Run and main() call no
\* sink, start no cycle and leave both the SQLite sink and the since-flush
\* tally as they are; between the two the flush loop and the callbacks run
\* on, and the only step that stores a record is the INSERT of a cycle of the
\* loop; once the process has ended nothing changes any more, so that the
\* counts the tally then holds and no cycle has stored stay unstored.
C28_QuitInvokesNoSink ==
    [][/\ main' # main =>
              /\ sqliteSink' = sqliteSink
              /\ metrics' = metrics
              /\ hist'.remote = hist.remote /\ hist'.sqlite = hist.sqlite
              /\ fl' = fl \/ (main'.pc = "exit" /\ fl' = [fl EXCEPT !.pc = "exit"])
       /\ main'.pc = "exit" => callers' = {} /\ fl'.pc = "exit"
       /\ sqliteSink' # sqliteSink => Stored
       /\ main.pc # "exit"]_vars

\* C28 witness: the process has ended after a click on Quit, the key press is
\* in the since-flush tally and the SQLite sink holds no count.
C28_Witness ==
    /\ main.pc = "exit"
    /\ hist.atQuit.Keypresses = 1
    /\ metrics.Keypresses = 1
    /\ sqliteSink = EmptySink
    /\ fl = [IdleFl EXCEPT !.pc = "exit"]

====
